---- MODULE Spec2Model ----
(***************************************************************************)
(* A state-machine model of convert.py, the MBTiles expander: archive      *)
(* discovery, the optional clean of the output directory, and the          *)
(* per-archive extraction loop with its chdir walk and its                 *)
(* composite-or-write branch.  One run of the script is a sequence of      *)
(* steps; Rerun starts the script again over the file system the previous  *)
(* run left behind.                                                        *)
(***************************************************************************)
EXTENDS Integers, Sequences, FiniteSets, TLC

(***************************************************************************)
(* Bounds of the model.                                                    *)
(***************************************************************************)
MaxArchives == 2
MaxZoom == 1
MaxRuns == 2

VARIABLES
  argv,            \* the parsed command line (args, lines 110-116)
  source,          \* the files of the source directory, in listdir order
  run,             \* how many times the script has been started
  pc,              \* position of the script
  err,             \* the uncaught exception that ended the run, if any
  cwd,             \* the process working directory
  fs,              \* image files on disk: absolute path -> decoded pixel
  dirs,            \* directories on disk (absolute paths)
  fidx,            \* position of the discovery loop in onlyfiles
  names_to_parse,
  parse_message,
  files_exported,
  response,        \* the answer typed at the clean prompt (line 218)
  k,               \* position of the extraction loop in files_exported
  out_format,
  l,               \* COUNT(1) of the tile relation (line 277)
  cursor,          \* rows the cursor has still to yield
  i,               \* loop counter of the extraction loop (line 289)
  bar,             \* last <<iteration, total>> given to printProgressBar
  processed,       \* rows the loop body has handled for the current archive
  verbatim,        \* paths written by the else branch (304-306) in this run
  composited,      \* paths rewritten by the composite branch in this run
  fsPrev           \* the image files on disk when this run started

vars == <<argv, source, run, pc, err, cwd, fs, dirs, fidx, names_to_parse,
          parse_message, files_exported, response, k, out_format, l, cursor,
          i, bar, processed, verbatim, composited, fsPrev>>

(***************************************************************************)
(* Strings and paths.                                                      *)
(***************************************************************************)
Digit == <<"0", "1", "2", "3", "4", "5", "6", "7", "8", "9">>

\* str() of an integer: its decimal digits.
RECURSIVE Str(_)
Str(n) ==
  IF n < 0 THEN "-" \o Str(-n)
  ELSE IF n < 10 THEN Digit[n + 1]
  ELSE Str(n \div 10) \o Digit[(n % 10) + 1]

\* The directory the script is started in.
InitialCwd == <<"home", "user">>

\* Values of -o/--output: the default './tiles/', a nested relative path
\* and an absolute path.
DirSingle == [abs |-> FALSE, parts |-> <<"tiles">>]
DirNested == [abs |-> FALSE, parts |-> <<"out", "tiles">>]
DirAbsolute == [abs |-> TRUE, parts |-> <<"srv", "tiles">>]
Dirnames == {DirSingle, DirNested, DirAbsolute}

\* Where the operating system resolves path d from working directory c.
Resolve(c, d) == IF d.abs THEN d.parts ELSE c \o d.parts

\* os.chdir('..')
Parent(c) == IF c = <<>> THEN c ELSE SubSeq(c, 1, Len(c) - 1)

Prefixes(p) == {SubSeq(p, 1, n) : n \in 0..Len(p)}

IsUnder(root, p) == Len(p) > Len(root) /\ SubSeq(p, 1, Len(root)) = root

\* The output directory os.makedirs(dirname) creates from the initial cwd.
OutRoot == Resolve(InitialCwd, argv.dirname)

(***************************************************************************)
(* Images.  A tile image is one RGBA pixel reduced to a colour band c and  *)
(* the alpha band a, both 8 bit.                                           *)
(***************************************************************************)
Opaque1 == [c |-> 200, a |-> 255]
Half1 == [c |-> 40, a |-> 128]

\* What im1.save leaves of an existing file when the encoder refuses the
\* image: the file was opened for writing, so it is empty and no image.
Truncated == [c |-> -1, a |-> -1]

\* Pillow's rounding division by 255 of the paste blend.
Div255(x) == (((x + 128) \div 256) + (x + 128)) \div 256

Blend(mask, in1, in2) == Div255(in1 * (255 - mask) + in2 * mask)

\* Image.alpha_composite: the Porter-Duff "over" operator.
AlphaComposite(im1, im2) ==
  LET outA == im2.a + Div255(im1.a * (255 - im2.a))
  IN [c |-> IF outA = 0 THEN 0
            ELSE (im2.c * im2.a + Div255(im1.c * im1.a * (255 - im2.a)))
                   \div outA,
      a |-> outA]

\* im1.paste(im2, (0, 0), im2): every band of im1, the alpha band included,
\* becomes the blend of im1 and im2 weighted by im2's alpha.
Paste(im1, im2) ==
  [c |-> Blend(im2.a, im1.c, im2.c), a |-> Blend(im2.a, im1.a, im2.a)]

(***************************************************************************)
(* The source directory.                                                   *)
(***************************************************************************)
Extension == ".mbtiles"

NoRelation == [table |-> FALSE, rows |-> <<>>]
Relation(rs) == [table |-> TRUE, rows |-> rs]

\* The value column of the metadata rows named 'format'.
FormatRow(v) == Relation(<<v>>)

RECURSIVE RowsFrom(_, _, _)
RowsFrom(z, y, px) ==
  IF z > MaxZoom THEN <<>>
  ELSE IF y >= 2 ^ z THEN RowsFrom(z + 1, 0, px)
  ELSE <<[zoom_level |-> z, tile_column |-> 0, tile_row |-> y,
          tile_data |-> px]>> \o RowsFrom(z, y + 1, px)

\* A tile relation holding column 0 of every zoom level, every tile painted px.
Pyramid(px) == Relation(RowsFrom(0, 0, px))

Archive(m, t) == [ext |-> Extension, metadata |-> m, tiles |-> t]

Catalog ==
  { Archive(FormatRow("png"), NoRelation),
    Archive(FormatRow("png"), Relation(<<>>)),
    Archive(FormatRow("png"), Pyramid(Opaque1)),
    Archive(FormatRow("png"), Pyramid(Half1)),
    Archive(FormatRow("jpg"), Pyramid(Opaque1)),
    Archive(FormatRow("jpeg"), Pyramid(Opaque1)),
    Archive(FormatRow("geojson"), Pyramid(Opaque1)),
    Archive(FormatRow(""), Pyramid(Opaque1)),
    Archive(Relation(<<>>), Pyramid(Opaque1)),
    Archive(NoRelation, NoRelation),
    [ext |-> ".txt", metadata |-> NoRelation, tiles |-> NoRelation] }

Sources == UNION {[1..n -> Catalog] : n \in 1..MaxArchives}

FileName(n) == "f" \o Str(n) \o source[n].ext

\* sqlite3.connect(input_dir + '/' + file_name) with the relative input_dir
\* './': the archive when the working directory is the one the script was
\* started in, and otherwise a new, empty database.
Connect(c, file_name) ==
  IF c = InitialCwd /\ \E n \in DOMAIN source : FileName(n) = file_name
  THEN source[CHOOSE n \in DOMAIN source : FileName(n) = file_name]
  ELSE Archive(NoRelation, NoRelation)

(***************************************************************************)
(* The command line.                                                       *)
(***************************************************************************)
ZoomArgs == {-1} \cup (0..MaxZoom)

AllArgs ==
  [min_zoom : ZoomArgs, max_zoom : ZoomArgs, dirname : Dirnames,
   clean : BOOLEAN, silent : BOOLEAN, yes : BOOLEAN]

DefaultZoom(a) == a.min_zoom = -1 /\ a.max_zoom = -1
DefaultDir(a) == a.dirname = DirSingle
DefaultFlags(a) == ~a.clean /\ ~a.silent /\ ~a.yes

\* The zoom filter, the output directory and the clean flags are read by
\* separate parts of the script: each group takes all its values while the
\* other two keep their defaults.
Args ==
  {a \in AllArgs :
     \/ DefaultZoom(a) /\ DefaultDir(a)
     \/ DefaultZoom(a) /\ DefaultFlags(a)
     \/ DefaultDir(a) /\ DefaultFlags(a)}

Responses == {"y", "yes", "yea", "yeah", "YES", "n", ""}

\* str.lower() on the answers above.
Lower(s) == IF s = "YES" THEN "yes" ELSE s

NoError == [exc |-> "", line |-> 0]
Raise(e, n) == [exc |-> e, line |-> n]
NoBar == <<-1, -1>>
Empty == [p \in {} |-> Opaque1]

Init ==
  /\ argv \in Args
  /\ source \in Sources
  /\ run = 1
  /\ pc = "start"
  /\ err = NoError
  /\ cwd = InitialCwd
  /\ fs = Empty
  /\ dirs = Prefixes(InitialCwd)
  /\ fidx = 1
  /\ names_to_parse = <<>>
  /\ parse_message = <<>>
  /\ files_exported = <<>>
  /\ response = ""
  /\ k = 1
  /\ out_format = "<undefined>"
  /\ l = 0
  /\ cursor = <<>>
  /\ i = 0
  /\ bar = NoBar
  /\ processed = <<>>
  /\ verbatim = {}
  /\ composited = {}
  /\ fsPrev = Empty

(***************************************************************************)
(* Lines 112-146: list the source directory, create the output directory.  *)
(* The source directory is readable and the output directory writable.     *)
(***************************************************************************)
Setup ==
  /\ pc = "start"
  /\ dirs' = dirs \cup Prefixes(Resolve(cwd, argv.dirname))
  /\ fidx' = 1
  /\ names_to_parse' = <<>>
  /\ parse_message' = <<>>
  /\ files_exported' = <<>>
  /\ pc' = "discover"
  /\ UNCHANGED <<argv, source, run, err, cwd, fs, response, k, out_format, l,
                 cursor, i, bar, processed, verbatim, composited, fsPrev>>

\* The formats line 159 lets into files_exported.
Supported(img_format) ==
  img_format = "png" \/ img_format = "jpg" \/ img_format = "jpeg"

\* Lines 154-174 for one archive: <<diagnostic, appended to files_exported,
\* uncaught exception>>.  Only sqlite3.OperationalError is caught.
Probe(db) ==
  IF ~db.metadata.table
  THEN <<"OperationalError", FALSE, NoError>>
  ELSE IF db.metadata.rows = <<>>
  THEN <<"", FALSE, Raise("TypeError", 158)>>
  ELSE LET img_format == db.metadata.rows[1]
       IN IF img_format # "" /\ Supported(img_format)
          THEN <<IF db.tiles.table THEN "Summary" ELSE "OperationalError",
                 TRUE, NoError>>
          ELSE IF img_format # ""
          THEN <<"UnsupportedFormat", FALSE, NoError>>
          ELSE <<"MissingFormatMetadata", FALSE, NoError>>

\* Lines 149-174: one iteration of the discovery loop.
Discover ==
  /\ pc = "discover"
  /\ fidx <= Len(source)
  /\ LET file_name == FileName(fidx)
         found == Probe(Connect(cwd, file_name))
     IN IF source[fidx].ext # Extension
        THEN /\ fidx' = fidx + 1
             /\ UNCHANGED <<names_to_parse, parse_message, files_exported,
                            pc, err>>
        ELSE /\ names_to_parse' = Append(names_to_parse, file_name)
             /\ files_exported' = IF found[2]
                                  THEN Append(files_exported, file_name)
                                  ELSE files_exported
             /\ IF found[3] = NoError
                THEN /\ parse_message' = Append(parse_message, found[1])
                     /\ fidx' = fidx + 1
                     /\ UNCHANGED <<pc, err>>
                ELSE /\ pc' = "crashed"
                     /\ err' = found[3]
                     /\ UNCHANGED <<parse_message, fidx>>
  /\ UNCHANGED <<argv, source, run, cwd, fs, dirs, response, k, out_format, l,
                 cursor, i, bar, processed, verbatim, composited, fsPrev>>

\* Lines 176-210: the listing, and exit(1) when nothing is to be exported.
CheckExport ==
  /\ pc = "discover"
  /\ fidx > Len(source)
  /\ pc' = IF files_exported = <<>> THEN "exit1"
           ELSE IF argv.clean THEN "clean" ELSE "extract"
  /\ k' = 1
  /\ UNCHANGED <<argv, source, run, err, cwd, fs, dirs, fidx, names_to_parse,
                 parse_message, files_exported, response, out_format, l,
                 cursor, i, bar, processed, verbatim, composited, fsPrev>>

\* Line 219 reading the bare Enter key as consent.
AffirmativeByDefault(r) ==
  r = "y" \/ r = "yes" \/ r = "yea" \/ r = "yeah" \/ r = ""

\* Line 219.
Affirmative(r) == r = "y" \/ r = "yes" \/ r = "yea" \/ r = "yeah"

\* os.listdir(folder) of delete_all_in_folder.
Entries(folder) ==
  {p[Len(folder) + 1] : p \in {q \in DOMAIN fs \cup dirs : IsUnder(folder, q)}}

Removed(folder, gone, p) ==
  IsUnder(folder, p) /\ p[Len(folder) + 1] \in gone

\* Lines 212-225 with delete_all_in_folder (73-87): the prompt unless silent
\* or yes is set, then the entries of the output directory are unlinked one
\* by one; a failure to delete an entry is exit(1) with the entries before
\* it gone.  No answer is read when the prompt is skipped.
Clean ==
  /\ pc = "clean"
  /\ \E answer \in Responses :
       LET asked == ~(argv.silent \/ argv.yes)
           folder == Resolve(cwd, argv.dirname)
       IN /\ response' = IF asked THEN Lower(answer) ELSE response
          /\ ~asked => answer = ""
          /\ IF asked /\ ~Affirmative(Lower(answer))
             THEN /\ pc' = "exit1"
                  /\ UNCHANGED <<fs, dirs>>
             ELSE \E gone \in SUBSET Entries(folder) :
                    /\ fs' = [p \in {q \in DOMAIN fs :
                                       ~Removed(folder, gone, q)} |-> fs[p]]
                    /\ dirs' = {q \in dirs : ~Removed(folder, gone, q)}
                    /\ pc' = IF gone = Entries(folder) THEN "extract"
                             ELSE "exit1"
  /\ UNCHANGED <<argv, source, run, err, cwd, fidx, names_to_parse,
                 parse_message, files_exported, k, out_format, l, cursor, i,
                 bar, processed, verbatim, composited, fsPrev>>

\* Lines 279-286 with strict comparisons in the WHERE clauses.
SelectTilesExclusive(rows, min_zoom, max_zoom) ==
  IF min_zoom = -1 /\ max_zoom = -1
  THEN rows
  ELSE IF min_zoom = -1 /\ max_zoom # -1
  THEN SelectSeq(rows, LAMBDA r : r.zoom_level < max_zoom)
  ELSE IF min_zoom # -1 /\ max_zoom = -1
  THEN SelectSeq(rows, LAMBDA r : r.zoom_level > min_zoom)
  ELSE SelectSeq(rows, LAMBDA r : r.zoom_level < max_zoom
                                  /\ r.zoom_level > min_zoom)

\* Lines 279-286: the rows the chosen SELECT yields, in the relation's order.
SelectTiles(rows, min_zoom, max_zoom) ==
  IF min_zoom = -1 /\ max_zoom = -1
  THEN rows
  ELSE IF min_zoom = -1 /\ max_zoom # -1
  THEN SelectSeq(rows, LAMBDA r : r.zoom_level <= max_zoom)
  ELSE IF min_zoom # -1 /\ max_zoom = -1
  THEN SelectSeq(rows, LAMBDA r : r.zoom_level >= min_zoom)
  ELSE SelectSeq(rows, LAMBDA r : r.zoom_level <= max_zoom
                                  /\ r.zoom_level >= min_zoom)

\* Lines 267-273: the extension for a fetched format row (<<>> for None);
\* a truthy value that is neither 'png' nor 'jpg' assigns nothing.
OutFormat(img_format, before) ==
  IF img_format # <<>>
  THEN IF img_format[1] = "png" THEN ".png"
       ELSE IF img_format[1] = "jpg" THEN ".jpg"
       ELSE before
  ELSE ""

\* The exception that ends lines 261-290 for database db, if any.
OpenFailure(db, target) ==
  IF ~db.metadata.table THEN Raise("OperationalError", 264)
  ELSE IF ~db.tiles.table THEN Raise("OperationalError", 276)
  ELSE IF Len(db.tiles.rows) = 0 THEN Raise("ZeroDivisionError", 288)
  ELSE IF target \notin dirs THEN Raise("FileNotFoundError", 290)
  ELSE NoError

\* Lines 256-291: open the next archive of files_exported, choose the
\* extension, count and select the tiles, print the empty progress bar
\* (printProgressBar divides by its total, line 64) and enter the output
\* directory.
OpenArchive ==
  /\ pc = "extract"
  /\ k <= Len(files_exported)
  /\ LET db == Connect(cwd, files_exported[k])
         target == Resolve(cwd, argv.dirname)
         failure == OpenFailure(db, target)
     IN /\ out_format' = IF db.metadata.table
                         THEN OutFormat(SubSeq(db.metadata.rows, 1, 1),
                                        out_format)
                         ELSE out_format
        /\ IF failure # NoError
           THEN /\ pc' = "crashed"
                /\ err' = failure
                /\ UNCHANGED <<l, cursor, i, bar, cwd, processed>>
           ELSE /\ l' = Len(db.tiles.rows)
                /\ cursor' = SelectTiles(db.tiles.rows, argv.min_zoom,
                                         argv.max_zoom)
                /\ bar' = <<0, Len(db.tiles.rows)>>
                /\ i' = 0
                /\ cwd' = target
                /\ processed' = <<>>
                /\ pc' = "tiles"
                /\ UNCHANGED err
  /\ UNCHANGED <<argv, source, run, fs, dirs, fidx, names_to_parse,
                 parse_message, files_exported, response, k, verbatim,
                 composited, fsPrev>>

\* Line 296 without the "- 1".
TranslatedRowOffByOne(zoom, row) == (2 ^ zoom) - row

\* Line 296: the flipped row.
TranslatedRow(zoom, row) == (2 ^ zoom) - 1 - row

ImageName(row, ext) ==
  Str(TranslatedRow(row.zoom_level, row.tile_row)) \o ext

\* What lines 297-306 do to the file at path: <<content left on disk,
\* branch taken, uncaught exception>>.  Saving an RGBA image under '.jpg'
\* is refused by the JPEG encoder after the file was opened for writing;
\* an unknown extension is refused before that.
WriteOrComposite(path, ext, tile_data) ==
  IF path \in DOMAIN fs
  THEN IF fs[path] = Truncated
       THEN <<fs[path], "composite", Raise("OSError", 299)>>
       ELSE IF ext = ".png"
       THEN <<Paste(fs[path], tile_data), "composite", NoError>>
       ELSE IF ext = ".jpg"
       THEN <<Truncated, "composite", Raise("OSError", 302)>>
       ELSE <<fs[path], "composite", Raise("ValueError", 302)>>
  ELSE <<tile_data, "write", NoError>>

\* Lines 293-313: the loop body for the next row of the cursor.
Tile ==
  /\ pc = "tiles"
  /\ cursor # <<>>
  /\ LET row == Head(cursor)
         zoomDir == cwd \o <<Str(row.zoom_level)>>
         colDir == zoomDir \o <<Str(row.tile_column)>>
     IN /\ dirs' = dirs \cup {zoomDir, colDir}
        /\ IF out_format = "<undefined>"
           THEN /\ pc' = "crashed"
                /\ err' = Raise("NameError", 296)
                /\ cwd' = colDir
                /\ UNCHANGED <<fs, cursor, i, bar, processed, verbatim,
                               composited>>
           ELSE LET path == colDir \o <<ImageName(row, out_format)>>
                    done == WriteOrComposite(path, out_format, row.tile_data)
                IN /\ fs' = [p \in DOMAIN fs \cup {path} |->
                               IF p = path THEN done[1] ELSE fs[p]]
                   /\ verbatim' = IF done[2] = "write"
                                  THEN verbatim \cup {path} ELSE verbatim
                   /\ composited' = IF done[2] = "composite"
                                    THEN composited \cup {path}
                                    ELSE composited
                   /\ IF done[3] # NoError
                      THEN /\ pc' = "crashed"
                           /\ err' = done[3]
                           /\ cwd' = colDir
                           /\ UNCHANGED <<cursor, i, bar, processed>>
                      ELSE /\ bar' = IF i % 5 = 0 THEN <<i, l>> ELSE bar
                           /\ i' = i + 1
                           /\ cwd' = Parent(Parent(colDir))
                           /\ cursor' = Tail(cursor)
                           /\ processed' = Append(processed, row)
                           /\ UNCHANGED <<pc, err>>
  /\ UNCHANGED <<argv, source, run, fidx, names_to_parse, parse_message,
                 files_exported, response, k, out_format, l, fsPrev>>

\* Lines 314-317: the cursor is exhausted; leave the output directory and
\* print the full progress bar.
CloseArchive ==
  /\ pc = "tiles"
  /\ cursor = <<>>
  /\ cwd' = Parent(cwd)
  /\ bar' = <<l, l>>
  /\ k' = k + 1
  /\ pc' = "extract"
  /\ UNCHANGED <<argv, source, run, err, fs, dirs, fidx, names_to_parse,
                 parse_message, files_exported, response, out_format, l,
                 cursor, i, processed, verbatim, composited, fsPrev>>

\* Line 318.
Finish ==
  /\ pc = "extract"
  /\ k > Len(files_exported)
  /\ pc' = "done"
  /\ UNCHANGED <<argv, source, run, err, cwd, fs, dirs, fidx, names_to_parse,
                 parse_message, files_exported, response, k, out_format, l,
                 cursor, i, bar, processed, verbatim, composited, fsPrev>>

Ended == pc = "done" \/ pc = "exit1" \/ pc = "crashed"

\* The script is started again with the same command line over the same
\* source directory and whatever the previous run left on disk.
Rerun ==
  /\ Ended
  /\ run < MaxRuns
  /\ run' = run + 1
  /\ pc' = "start"
  /\ err' = NoError
  /\ cwd' = InitialCwd
  /\ fidx' = 1
  /\ names_to_parse' = <<>>
  /\ parse_message' = <<>>
  /\ files_exported' = <<>>
  /\ response' = ""
  /\ k' = 1
  /\ out_format' = "<undefined>"
  /\ l' = 0
  /\ cursor' = <<>>
  /\ i' = 0
  /\ bar' = NoBar
  /\ processed' = <<>>
  /\ verbatim' = {}
  /\ composited' = {}
  /\ fsPrev' = fs
  /\ UNCHANGED <<argv, source, fs, dirs>>

Next ==
  \/ Setup
  \/ Discover
  \/ CheckExport
  \/ Clean
  \/ OpenArchive
  \/ Tile
  \/ CloseArchive
  \/ Finish
  \/ Rerun

Spec == Init /\ [][Next]_vars

(***************************************************************************)
(* Properties.                                                             *)
(***************************************************************************)
ToSet(seq) == {seq[n] : n \in DOMAIN seq}

\* The archive behind an entry of names_to_parse or files_exported.
Named(file_name) == source[CHOOSE n \in DOMAIN source : FileName(n) = file_name]

\* The diagnostic recorded against a discovered file.
Diagnostic(file_name) ==
  parse_message[CHOOSE n \in DOMAIN names_to_parse :
                  names_to_parse[n] = file_name]

Diagnosed == {names_to_parse[n] : n \in DOMAIN parse_message}

InZoomRange(z) ==
  /\ argv.min_zoom = -1 \/ z >= argv.min_zoom
  /\ argv.max_zoom = -1 \/ z <= argv.max_zoom

Wanted(file_name) ==
  {r \in ToSet(Named(file_name).tiles.rows) : InZoomRange(r.zoom_level)}

\* The archive whose loop ran last has been closed.
JustClosed == (pc = "extract" \/ pc = "done") /\ k > 1

\* C1: the rows the extraction loop processes for an archive are exactly the
\* archive's tiles whose zoom_level lies in [min_zoom, max_zoom], an absent
\* (-1) bound constraining nothing: while the loop runs, the rows handled and
\* the rows still to come are together that set, and when the archive is
\* closed the rows handled are that set.
C1_ZoomFilterExact ==
  /\ pc = "tiles" =>
       /\ ToSet(processed) \cup ToSet(cursor) = Wanted(files_exported[k])
       /\ Len(processed) + Len(cursor) = Cardinality(Wanted(files_exported[k]))
  /\ JustClosed => ToSet(processed) = Wanted(files_exported[k - 1])

\* An archive was closed after a lower zoom bound kept some of its tiles
\* and dropped others.
C1_Witness ==
  /\ JustClosed
  /\ argv.min_zoom # -1
  /\ processed # <<>>
  /\ Len(processed) < l

\* The files this run has written or rewritten.
Touched == verbatim \cup composited

\* C2: every processed tile (zoom, column, row) has its file at
\* zoom/column/(2^zoom - 1 - row) under the output root; the translated row
\* is in [0, 2^zoom), translating it again gives the row back, and two
\* processed rows of one zoom level and column have different file names.
C2_RowFlip ==
  (pc = "tiles" \/ JustClosed) =>
    \A r \in ToSet(processed) :
      LET z == r.zoom_level
          t == TranslatedRow(z, r.tile_row)
      IN /\ OutRoot \o <<Str(z), Str(r.tile_column),
                         Str((2 ^ z) - 1 - r.tile_row) \o out_format>>
              \in Touched
         /\ 0 <= t /\ t < 2 ^ z
         /\ TranslatedRow(z, t) = r.tile_row
         /\ \A q \in ToSet(processed) :
              (q.zoom_level = z /\ q.tile_column = r.tile_column /\ q # r)
                => ImageName(q, out_format) # ImageName(r, out_format)

\* Row 0 of zoom level 1 has been written as 1/0/1.png.
C2_Witness ==
  /\ JustClosed
  /\ \E r \in ToSet(processed) : r.zoom_level = 1 /\ r.tile_row = 0
  /\ OutRoot \o <<"1", "0", "1.png">> \in verbatim

\* C3 as claimed: a tile whose path holds no file is written verbatim; a
\* tile whose path holds a file is composited over it and the result stored
\* at that path under the declared format's extension, the loop going on;
\* an opaque tile over an opaque file leaves the tile's content.
C3_CompositeOrWrite ==
  [][(pc = "tiles" /\ cursor # <<>> /\ out_format # "<undefined>") =>
       LET row == Head(cursor)
           path == cwd \o <<Str(row.zoom_level), Str(row.tile_column),
                            ImageName(row, out_format)>>
       IN IF path \in DOMAIN fs
          THEN /\ pc' = "tiles"
               /\ out_format \in {".png", ".jpg"}
               /\ fs'[path] = Paste(fs[path], row.tile_data)
               /\ (fs[path].a = 255 /\ row.tile_data.a = 255)
                    => fs'[path] = row.tile_data
          ELSE fs'[path] = row.tile_data]_vars

UnsupportedValue(a) ==
  /\ a.metadata.table
  /\ a.metadata.rows # <<>>
  /\ a.metadata.rows[1] \notin {"", "png", "jpg", "jpeg"}

NoFormatRow(a) == a.metadata.table /\ a.metadata.rows = <<>>

\* C4 as claimed: discovery never aborts; a discovered archive with an
\* unsupported format value carries the UnsupportedFormat diagnostic, one
\* without a format row the MissingFormatMetadata diagnostic, and neither
\* is in the export set.
C4_FormatRejected ==
  /\ ~(pc = "crashed" /\ err.line >= 149 /\ err.line <= 174)
  /\ \A f \in Diagnosed :
       /\ UnsupportedValue(Named(f)) =>
            Diagnostic(f) = "UnsupportedFormat" /\ f \notin ToSet(files_exported)
       /\ NoFormatRow(Named(f)) =>
            Diagnostic(f) = "MissingFormatMetadata"
              /\ f \notin ToSet(files_exported)

TilesQueryFails(a) ==
  /\ a.metadata.table
  /\ a.metadata.rows # <<>>
  /\ a.metadata.rows[1] \in {"png", "jpg", "jpeg"}
  /\ ~a.tiles.table

\* C5 as claimed: an archive with a valid format whose tile query fails has
\* a diagnostic recorded and is not in the export set.
C5_QueryErrorExcluded ==
  \A f \in Diagnosed :
    TilesQueryFails(Named(f)) =>
      Diagnostic(f) = "OperationalError" /\ f \notin ToSet(files_exported)

\* C6 as claimed: while an archive of the export set is extracted the
\* extension is the one of its own declared format, '.png' for png and
\* '.jpg' for jpg and jpeg.
C6_OwnExtension ==
  pc = "tiles" =>
    out_format = IF Named(files_exported[k]).metadata.rows[1] = "png"
                 THEN ".png" ELSE ".jpg"

\* The tiles of the source directory that map to path p.
TilesAt(p) ==
  {r \in UNION {ToSet(source[n].tiles.rows) : n \in DOMAIN source} :
     \E e \in {".png", ".jpg"} :
       p = OutRoot \o <<Str(r.zoom_level), Str(r.tile_column),
                        Str((2 ^ r.zoom_level) - 1 - r.tile_row) \o e>>}

PartlyTransparent(px) == 0 < px.a /\ px.a < 255

YesWords == {"y", "yes", "yea", "yeah"}

MustAsk == argv.clean /\ ~argv.silent /\ ~argv.yes

\* C8: with clean requested and a prompt due, as long as no yes-answer was
\* given nothing is deleted, no tile is extracted and the run does not end
\* with exit code 0; once a tile is written under clean mode the output
\* directory holds only files of this run; and files disappear only under
\* clean mode after silent, yes or a yes-answer.
C8_CleanAfterConfirmation ==
  /\ (MustAsk /\ response \notin YesWords) =>
       /\ fs = fsPrev
       /\ \A q \in DOMAIN fsPrev : Prefixes(q) \ {q} \subseteq dirs
       /\ Touched = {}
       /\ pc \in {"start", "discover", "clean", "exit1", "crashed"}
  /\ (argv.clean /\ (Touched # {} \/ pc \in {"extract", "tiles", "done"})) =>
       DOMAIN fs = verbatim
  /\ (\E q \in DOMAIN fsPrev : q \notin DOMAIN fs) =>
       argv.clean /\ (argv.silent \/ argv.yes \/ response \in YesWords)

\* The prompt was answered "n" over an output directory holding tiles.
C8_Witness ==
  /\ MustAsk
  /\ response = "n"
  /\ pc = "exit1"
  /\ DOMAIN fs # {}

\* C9 as claimed: the extraction of an archive of the export set that has a
\* tile relation is never ended by an exception, whatever its row count.
C9_ArchiveReachesClosed ==
  ~(/\ pc = "crashed"
    /\ err.line >= 256
    /\ Named(files_exported[k]).tiles.table)

\* C10 as claimed: the working directory is the initial one whenever an
\* archive is about to be opened and the output root between tiles.
C10_WorkingDirectory ==
  /\ (pc = "extract" /\ k <= Len(files_exported)) => cwd = InitialCwd
  /\ pc = "tiles" => cwd = OutRoot

====
